---- MODULE Spec2Model ----
(***************************************************************************)
(* Sampling-and-derivation engine of the Linux system monitor (main.c):    *)
(* the CPU sampler and delta engine, the memory sampler, the disk sampler  *)
(* and the polling loop of main that drives them.                          *)
(*                                                                         *)
(* Numbers.  The C counters are unsigned (unsigned long long, unsigned     *)
(* long); their arithmetic wraps modulo 2^64.  The model keeps the         *)
(* wrap-around and scales the width down to WordBits bits.  A C double is  *)
(* modelled as an exact fraction [num, den]; den = 0 stands for the        *)
(* results of a floating-point division by zero (num > 0: +infinity,       *)
(* num = 0: NaN), and comparisons follow the IEEE rules for them.          *)
(***************************************************************************)
EXTENDS Integers, Sequences, FiniteSets, TLC

VARIABLES
    config,         \* config_t of main, as filled by parse_arguments
    running,        \* volatile sig_atomic_t running
    pc,             \* position of main (or of the unit under study)
    cpu_stats,      \* cpu_stats_t cpu_stats of main
    memory_stats,   \* memory_stats_t memory_stats of main
    disk_stats,     \* disk_stats_t disk_stats of main
    io,             \* the last outcome of each counter source and the value
                    \* its sampler returned
    tick,           \* what the sampling pass in progress has done so far
    out             \* what was last written: the output of print_system_info,
                    \* or the buffer of format_bytes with its argument

vars == <<config, running, pc, cpu_stats, memory_stats, disk_stats, io, tick, out>>

-----------------------------------------------------------------------------
(* Bounds of the model *)

\* width in bits of the unsigned counters (64 in the program)
WordBits == 6
\* largest counter value of the samples the delta engine is applied to
MaxTick == 1
\* largest counter value on a line of the CPU counter source
MaxLineTick == 2
\* largest value the memory source reports for a key, in kB
MaxKB == 2
\* largest block count statvfs reports
MaxBlocks == 2
\* largest number of command line arguments after the program name
MaxArgs == 2
\* largest number of base-1024 digits of a byte count given to format_bytes
MaxDigits == 6
\* the percentages given to the display are the multiples of 1/PercentSteps
PercentSteps == 2

Word == 2 ^ WordBits

\* unsigned arithmetic: the value of x in WordBits bits
Wrap(x) == x % Word

-----------------------------------------------------------------------------
(* double *)

Frac(n, d) == [num |-> n, den |-> d]
Zero == Frac(0, 1)
Hundred == Frac(100, 1)

\* p < q on doubles; false when either side is NaN
FracLT(p, q) ==
    /\ ~(p.num = 0 /\ p.den = 0)
    /\ ~(q.num = 0 /\ q.den = 0)
    /\ p.num * q.den < q.num * p.den

\* p and q are the same finite number
FracEq(p, q) ==
    /\ p.den > 0
    /\ q.den > 0
    /\ p.num * q.den = q.num * p.den

\* "if (x < 0.0) x = 0.0; if (x > 100.0) x = 100.0;"
ClampPercent(p) ==
    LET low == IF FracLT(p, Zero) THEN Zero ELSE p
    IN  IF FracLT(Hundred, low) THEN Hundred ELSE low

\* a finite number within [0, 100]
InPercentRange(p) ==
    /\ p.den > 0
    /\ 0 <= p.num
    /\ p.num <= 100 * p.den

-----------------------------------------------------------------------------
(* CPU sampler and delta engine *)

\* the eight counters of the aggregate line, in the order sscanf stores them
CpuFields == <<"user", "nice", "system", "idle", "iowait", "irq", "softirq", "steal">>

PrevField(f) ==
    CASE f = "user"    -> "prev_user"
      [] f = "nice"    -> "prev_nice"
      [] f = "system"  -> "prev_system"
      [] f = "idle"    -> "prev_idle"
      [] f = "iowait"  -> "prev_iowait"
      [] f = "irq"     -> "prev_irq"
      [] f = "softirq" -> "prev_softirq"
      [] f = "steal"   -> "prev_steal"

\* cpu_stats_t cpu_stats = {0}
CpuZero ==
    [user |-> 0, nice |-> 0, system |-> 0, idle |-> 0,
     iowait |-> 0, irq |-> 0, softirq |-> 0, steal |-> 0,
     prev_user |-> 0, prev_nice |-> 0, prev_system |-> 0, prev_idle |-> 0,
     prev_iowait |-> 0, prev_irq |-> 0, prev_softirq |-> 0, prev_steal |-> 0,
     usage_percent |-> Zero]

\* the counters a cpu_stats_t is studied with: user, system, idle and iowait
\* range over 0..MaxTick, the other four over 0..1
TickValues(f) ==
    IF f \in {"user", "system", "idle", "iowait"} THEN 0 .. MaxTick ELSE 0 .. 1

\* one sample: a value for each of the eight counters
CpuSamples == [user : TickValues("user"), nice : TickValues("nice"),
               system : TickValues("system"), idle : TickValues("idle"),
               iowait : TickValues("iowait"), irq : TickValues("irq"),
               softirq : TickValues("softirq"), steal : TickValues("steal")]

\* the cpu_stats_t holding curr as the current and prev as the previous sample
CpuPair(prev, curr) ==
    [user |-> curr.user, nice |-> curr.nice, system |-> curr.system,
     idle |-> curr.idle, iowait |-> curr.iowait, irq |-> curr.irq,
     softirq |-> curr.softirq, steal |-> curr.steal,
     prev_user |-> prev.user, prev_nice |-> prev.nice,
     prev_system |-> prev.system, prev_idle |-> prev.idle,
     prev_iowait |-> prev.iowait, prev_irq |-> prev.irq,
     prev_softirq |-> prev.softirq, prev_steal |-> prev.steal,
     usage_percent |-> Zero]

prev_total(stats) ==
    Wrap(stats.prev_user + stats.prev_nice + stats.prev_system + stats.prev_idle
         + stats.prev_iowait + stats.prev_irq + stats.prev_softirq + stats.prev_steal)

curr_total(stats) ==
    Wrap(stats.user + stats.nice + stats.system + stats.idle
         + stats.iowait + stats.irq + stats.softirq + stats.steal)

prev_idle(stats) == Wrap(stats.prev_idle + stats.prev_iowait)
curr_idle(stats) == Wrap(stats.idle + stats.iowait)

total_diff(stats) == Wrap(curr_total(stats) - prev_total(stats))
idle_diff(stats) == Wrap(curr_idle(stats) - prev_idle(stats))

\* the returned and the stored result of one read_cpu_stats call
CpuRead(stats, ret) == [stats |-> stats, ret |-> ret]

\* "Store previous values": every prev_ field takes the current field
StorePrevious(stats) ==
    [stats EXCEPT !.prev_user = stats.user, !.prev_nice = stats.nice,
                  !.prev_system = stats.system, !.prev_idle = stats.idle,
                  !.prev_iowait = stats.iowait, !.prev_irq = stats.irq,
                  !.prev_softirq = stats.softirq, !.prev_steal = stats.steal]

\* sscanf(line, "cpu %llu ... %llu", &stats->user, ..., &stats->steal): the
\* line is the sequence of the counters that can be converted, in order; the
\* i-th one is stored in the i-th field, a field with no counter is not written
sscanf_cpu(stats, line) ==
    LET n == Len(line)
        Scan(i, old) == IF i <= n THEN Wrap(line[i]) ELSE old
    IN  [stats |->
            [stats EXCEPT !.user = Scan(1, @), !.nice = Scan(2, @),
                          !.system = Scan(3, @), !.idle = Scan(4, @),
                          !.iowait = Scan(5, @), !.irq = Scan(6, @),
                          !.softirq = Scan(7, @), !.steal = Scan(8, @)],
         result |-> n]

\* read_cpu_stats that asks for five counters
read_cpu_stats_five(stats, src) ==
    IF src.kind = "open_fail" \/ src.kind = "read_fail"
    THEN CpuRead(stats, -1)
    ELSE LET scan == sscanf_cpu(StorePrevious(stats), src.line)
         IN  CpuRead(scan.stats, IF scan.result < 5 THEN -1 ELSE 0)

\* int read_cpu_stats(cpu_stats_t* stats); src is what /proc/stat does in
\* this call: fopen fails, fgets fails, or the first line is read
read_cpu_stats(stats, src) ==
    IF src.kind = "open_fail" \/ src.kind = "read_fail"
    THEN CpuRead(stats, -1)
    ELSE LET scan == sscanf_cpu(StorePrevious(stats), src.line)
         IN  CpuRead(scan.stats, IF scan.result < 4 THEN -1 ELSE 0)

\* the lines of the CPU counter source: k counters, 0 <= k <= 8 (k = 0 is
\* a line without the "cpu" tag or without a number after it), all of the
\* value v of the read they come from
CpuLine(v, k) == [i \in 1 .. k |-> v]
LineLengths == {0, 3, 4, 6, 8}
CpuLines == {CpuLine(v, k) : v \in 0 .. MaxLineTick, k \in LineLengths}

CpuSources ==
    {[kind |-> "open_fail", line |-> <<>>], [kind |-> "read_fail", line |-> <<>>]}
    \cup {[kind |-> "line", line |-> l] : l \in CpuLines}

\* calculate_cpu_usage without the final clamp to 100
calculate_cpu_usage_unclamped(stats) ==
    [stats EXCEPT !.usage_percent =
        IF total_diff(stats) = 0
        THEN Zero
        ELSE Frac(100 * Wrap(total_diff(stats) - idle_diff(stats)), total_diff(stats))]

\* calculate_cpu_usage without the test for total_diff == 0
calculate_cpu_usage_unguarded(stats) ==
    [stats EXCEPT !.usage_percent =
        ClampPercent(Frac(100 * Wrap(total_diff(stats) - idle_diff(stats)),
                          total_diff(stats)))]

\* void calculate_cpu_usage(cpu_stats_t* stats)
calculate_cpu_usage(stats) ==
    [stats EXCEPT !.usage_percent =
        ClampPercent(IF total_diff(stats) = 0
                     THEN Zero
                     ELSE Frac(100 * Wrap(total_diff(stats) - idle_diff(stats)),
                               total_diff(stats)))]

-----------------------------------------------------------------------------
(* Memory sampler *)

\* the keys of /proc/meminfo that read_memory_stats recognises
MemKeys == {"total", "available", "free", "buffers", "cached"}

\* the values the memory source reports: MemTotal and MemAvailable range
\* over 0..MaxKB, MemFree, Buffers and Cached over 0..1
MemFiles ==
    {f \in [present : SUBSET MemKeys, total : 0 .. MaxKB, available : 0 .. MaxKB,
            free : 0 .. 1, buffers : 0 .. 1, cached : 0 .. 1] :
        \A k \in MemKeys \ f.present : f[k] = 0}

NoMemFile ==
    [present |-> {}, total |-> 0, available |-> 0, free |-> 0, buffers |-> 0,
     cached |-> 0]

MemSources ==
    {[kind |-> "open_fail", file |-> NoMemFile]}
    \cup {[kind |-> "ok", file |-> f] : f \in MemFiles}

\* the returned and the stored result of one read_memory_stats call
MemRead(stats, ret) == [stats |-> stats, ret |-> ret]

\* "Initialize values", then the fgets loop: each line "Key: value kB" of a
\* recognised key stores its value; any other line is skipped
ParseMeminfo(stats, file) ==
    LET Line(k) == IF k \in file.present THEN Wrap(file[k]) ELSE 0
    IN  [stats EXCEPT !.total = Line("total"), !.available = Line("available"),
                      !.free = Line("free"), !.buffers = Line("buffers"),
                      !.cached = Line("cached")]

\* "Calculate used memory": unsigned long arithmetic
DeriveUsed(stats) ==
    IF stats.available > 0
    THEN [stats EXCEPT !.used = Wrap(stats.total - stats.available)]
    ELSE [stats EXCEPT
            !.used = Wrap(stats.total - stats.free - stats.buffers - stats.cached),
            !.available = Wrap(stats.free + stats.buffers + stats.cached)]

\* the percentage of read_memory_stats without the test for total > 0
MemPercent_unguarded(stats) ==
    [stats EXCEPT !.usage_percent = ClampPercent(Frac(100 * stats.used, stats.total))]

\* "if (stats->total > 0) ... usage_percent = used / total * 100.0", clamped
MemPercent(stats) ==
    [stats EXCEPT !.usage_percent =
        ClampPercent(IF stats.total > 0
                     THEN Frac(100 * stats.used, stats.total)
                     ELSE Zero)]

\* int read_memory_stats(memory_stats_t* stats); src is what /proc/meminfo
\* does in this call: fopen fails, or the file is read to its end
read_memory_stats(stats, src) ==
    IF src.kind = "open_fail"
    THEN MemRead(stats, -1)
    ELSE MemRead(MemPercent(DeriveUsed(ParseMeminfo(stats, src.file))), 0)

-----------------------------------------------------------------------------
(* Disk sampler *)

\* what statvfs fills in: f_blocks, f_bfree and f_bavail in blocks of
\* f_frsize bytes
VfsValues ==
    [f_blocks : 0 .. MaxBlocks, f_frsize : {1, 2}, f_bfree : 0 .. MaxBlocks,
     f_bavail : 0 .. MaxBlocks]

NoVfs == [f_blocks |-> 0, f_frsize |-> 1, f_bfree |-> 0, f_bavail |-> 0]

DiskSources ==
    {[kind |-> "statvfs_fail", vfs |-> NoVfs]}
    \cup {[kind |-> "ok", vfs |-> v] : v \in VfsValues}

\* the returned and the stored result of one read_disk_stats call
DiskRead(stats, ret) == [stats |-> stats, ret |-> ret]

\* DiskBytes with used taken as the complement of available
DiskBytes_complement(stats, path, vfs) ==
    LET total == Wrap(vfs.f_blocks * vfs.f_frsize)
    IN  [stats EXCEPT !.mount_point = path,
                      !.total = total,
                      !.available = Wrap(vfs.f_bavail * vfs.f_frsize),
                      !.used = Wrap(total - Wrap(vfs.f_bavail * vfs.f_frsize))]

\* "Calculate disk usage in bytes": unsigned long long arithmetic
DiskBytes(stats, path, vfs) ==
    LET total == Wrap(vfs.f_blocks * vfs.f_frsize)
    IN  [stats EXCEPT !.mount_point = path,
                      !.total = total,
                      !.available = Wrap(vfs.f_bavail * vfs.f_frsize),
                      !.used = Wrap(total - Wrap(vfs.f_bfree * vfs.f_frsize))]

\* "if (stats->total > 0) ... usage_percent = used / total * 100.0", clamped
DiskPercent(stats) ==
    [stats EXCEPT !.usage_percent =
        ClampPercent(IF stats.total > 0
                     THEN Frac(100 * stats.used, stats.total)
                     ELSE Zero)]

\* int read_disk_stats(const char* path, disk_stats_t* stats); src is what
\* statvfs(path) does in this call
read_disk_stats(path, stats, src) ==
    IF src.kind = "statvfs_fail"
    THEN DiskRead(stats, -1)
    ELSE DiskRead(DiskPercent(DiskBytes(stats, path, src.vfs)), 0)

-----------------------------------------------------------------------------
(* Unit converter *)
(* A byte count (unsigned long long) is written in base 1024, least         *)
(* significant digit first and without leading zeros; 0 is << >>.  The      *)
(* double size of format_bytes is the byte count with its last unit_index   *)
(* digits after the point: a division by 1024.0 moves the point by one      *)
(* digit and is exact.  The conversion of the count to double, which        *)
(* rounds counts above 2^53, is taken as exact.                             *)

\* the divisor of format_bytes
Kilo == 1024

\* const char* units[] = {"B", "KB", "MB", "GB", "TB"}
units == <<"B", "KB", "MB", "GB", "TB">>

RECURSIVE Normalise(_)
\* the digits d without leading zeros
Normalise(d) ==
    IF d = <<>> THEN <<>>
    ELSE IF d[Len(d)] = 0 THEN Normalise(SubSeq(d, 1, Len(d) - 1))
    ELSE d

RECURSIVE ToBytes(_)
\* (unsigned long long)n for a counter n of the model
ToBytes(n) == IF n = 0 THEN <<>> ELSE <<n % Kilo>> \o ToBytes(n \div Kilo)

\* the low 64 bits of a count: six digits of ten bits and four bits more
Wrap64(d) ==
    IF Len(d) < 7 THEN d
    ELSE Normalise(SubSeq(d, 1, 6) \o <<d[7] % 16>>)

\* (unsigned long long)n * 1024
TimesKilo(d) == IF d = <<>> THEN <<>> ELSE Wrap64(<<0>> \o d)

RECURSIVE MulFrom(_, _, _, _)
\* the digits of d * m + carry from digit i on, and the carry out of the last
MulFrom(d, m, i, carry) ==
    IF i > Len(d)
    THEN [digits |-> <<>>, carry |-> carry]
    ELSE LET t == d[i] * m + carry
             rest == MulFrom(d, m, i + 1, t \div Kilo)
         IN  [digits |-> <<t % Kilo>> \o rest.digits, carry |-> rest.carry]

RECURSIVE AddOne(_)
\* d + 1
AddOne(d) ==
    IF d = <<>> THEN <<1>>
    ELSE IF d[1] < Kilo - 1 THEN <<d[1] + 1>> \o Tail(d)
    ELSE <<0>> \o AddOne(Tail(d))

\* the buffer after snprintf: the unit, the digits before the decimal point
\* (whole, again in base 1024) and the digit after it, -1 when "%llu" prints
\* no decimal
Text(unit_index, whole, tenths) ==
    [unit_index |-> unit_index, unit |-> units[unit_index + 1], whole |-> whole,
     tenths |-> tenths]

\* "%.1f" of the count with its last point digits after the point: rounded to
\* the nearest tenth, to the even one on a tie
OneDecimal(bytes, point) ==
    LET whole == SubSeq(bytes, point + 1, Len(bytes))
        ten == MulFrom(SubSeq(bytes, 1, point), 10, 1, 0)
        twice == MulFrom(ten.digits, 2, 1, 0)
        up == /\ twice.carry = 1
              /\ \/ Normalise(twice.digits) # <<>>
                 \/ ten.carry % 2 = 1
        tenths == ten.carry + (IF up THEN 1 ELSE 0)
    IN  [whole |-> IF tenths = 10 THEN AddOne(whole) ELSE whole,
         tenths |-> tenths % 10]

RECURSIVE ScaleFrom_above(_, _)
\* the while loop of format_bytes with the test size > 1024.0
ScaleFrom_above(bytes, unit_index) ==
    IF /\ \/ Len(bytes) - unit_index > 2
          \/ /\ Len(bytes) - unit_index = 2
             /\ \/ bytes[Len(bytes)] > 1
                \/ Normalise(SubSeq(bytes, 1, Len(bytes) - 1)) # <<>>
       /\ unit_index < 4
    THEN ScaleFrom_above(bytes, unit_index + 1)
    ELSE unit_index

RECURSIVE ScaleFrom(_, _)
\* "while (size >= 1024.0 && unit_index < 4) { size /= 1024.0; unit_index++; }":
\* size >= 1024.0 when two digits or more stand before the point
ScaleFrom(bytes, unit_index) ==
    IF Len(bytes) - unit_index >= 2 /\ unit_index < 4
    THEN ScaleFrom(bytes, unit_index + 1)
    ELSE unit_index

\* void format_bytes(unsigned long long bytes, char* buffer, size_t buffer_size)
format_bytes(bytes) ==
    LET unit_index == ScaleFrom(bytes, 0)
    IN  IF unit_index = 0
        THEN Text(0, bytes, -1)
        ELSE LET f == OneDecimal(bytes, unit_index)
             IN  Text(unit_index, f.whole, f.tenths)

\* the byte counts format_bytes is studied with: up to MaxDigits digits, each
\* 0, 1, 512 or 1023, below 2^64
DigitValues == {0, 1, 512, 1023}
ByteCounts ==
    {d \in UNION {[1 .. n -> DigitValues] : n \in 0 .. MaxDigits} :
        /\ Normalise(d) = d
        /\ Wrap64(d) = d
        /\ Len(d) <= 7}

-----------------------------------------------------------------------------
(* Display *)
(* What print_system_info writes, without the escape sequences and the      *)
(* time of day: per section the color and the length of the bar, the        *)
(* percentage and the details.                                              *)

PROGRESS_BAR_WIDTH == 50

\* "const char* color = GREEN; if (p > red_above) color = RED;
\*  else if (p > yellow_above) color = YELLOW;"
Color(percent, yellow_above, red_above) ==
    IF FracLT(Frac(red_above, 1), percent) THEN "RED"
    ELSE IF FracLT(Frac(yellow_above, 1), percent) THEN "YELLOW"
    ELSE "GREEN"

\* void print_progress_bar(const char* label, double percentage,
\* const char* color): filled = (int)(percentage * PROGRESS_BAR_WIDTH / 100.0)
print_progress_bar(label, percentage, color) ==
    [label |-> label, color |-> color,
     filled |-> (percentage.num * PROGRESS_BAR_WIDTH) \div (100 * percentage.den),
     percentage |-> percentage]

\* a section that is not printed
NoSection == [shown |-> FALSE]

\* (double)(curr - prev) / (double)(curr_sum - prev_sum) * 100.0 with the
\* unsigned differences; the divisor is not tested, so the quotient is
\* infinite or not a number when the two sums are equal
Share(curr, prev, stats) == Frac(100 * Wrap(curr - prev), total_diff(stats))

\* "CPU Information"
CpuSection(cpu) ==
    [shown |-> TRUE,
     bar |-> print_progress_bar("CPU", cpu.usage_percent,
                                Color(cpu.usage_percent, 60, 80)),
     user |-> Share(cpu.user, cpu.prev_user, cpu),
     system |-> Share(cpu.system, cpu.prev_system, cpu),
     idle |-> Share(cpu.idle, cpu.prev_idle, cpu)]

\* "Memory Information"
MemorySection(memory) ==
    [shown |-> TRUE,
     bar |-> print_progress_bar("Memory", memory.usage_percent,
                                Color(memory.usage_percent, 75, 90)),
     total |-> format_bytes(TimesKilo(ToBytes(memory.total))),
     used |-> format_bytes(TimesKilo(ToBytes(memory.used))),
     available |-> format_bytes(TimesKilo(ToBytes(memory.available))),
     buffers |-> format_bytes(TimesKilo(ToBytes(memory.buffers))),
     cached |-> format_bytes(TimesKilo(ToBytes(memory.cached)))]

\* "Disk Information"
DiskSection(disk) ==
    [shown |-> TRUE,
     mount_point |-> disk.mount_point,
     bar |-> print_progress_bar("Disk", disk.usage_percent,
                                Color(disk.usage_percent, 80, 90)),
     total |-> format_bytes(ToBytes(disk.total)),
     used |-> format_bytes(ToBytes(disk.used)),
     available |-> format_bytes(ToBytes(disk.available))]

\* void print_system_info(const cpu_stats_t* cpu, const memory_stats_t* memory,
\*                        const disk_stats_t* disk, const config_t* config)
print_system_info(cpu, memory, disk, cfg) ==
    [kind |-> "screen",
     cpu |-> IF cfg.show_cpu = 1 THEN CpuSection(cpu) ELSE NoSection,
     memory |-> IF cfg.show_memory = 1 THEN MemorySection(memory) ELSE NoSection,
     disk |-> IF cfg.show_disk = 1 THEN DiskSection(disk) ELSE NoSection]

-----------------------------------------------------------------------------
(* State shared by the specifications *)

\* config_t after parse_arguments with no option
ConfigDefault ==
    [refresh_rate |-> 1, show_cpu |-> 1, show_memory |-> 1, show_disk |-> 1,
     disk_path |-> "/", continuous |-> 1]

\* memory_stats_t memory_stats = {0}
MemZero ==
    [total |-> 0, available |-> 0, used |-> 0, free |-> 0, buffers |-> 0,
     cached |-> 0, usage_percent |-> Zero]

\* disk_stats_t disk_stats = {0}
DiskZero ==
    [mount_point |-> "", total |-> 0, used |-> 0, available |-> 0,
     usage_percent |-> Zero]

NoSource == [kind |-> "none", line |-> <<>>]
NoMemSource == [kind |-> "none", file |-> NoMemFile]
NoDiskSource == [kind |-> "none", vfs |-> NoVfs]

\* no sampler has been called yet; cpu_reads counts the read_cpu_stats calls
\* that returned 0, up to two
IoNone ==
    [cpu |-> NoSource, cpu_ret |-> 0, cpu_reads |-> 0,
     mem |-> NoMemSource, mem_ret |-> 0,
     disk |-> NoDiskSource, disk_ret |-> 0]

\* nothing has been written yet
NoOut == [kind |-> "none"]

\* a sampling pass that has done nothing yet: per sampler "none" (not
\* called), "ok" (returned 0) or "err" (returned -1); whether
\* calculate_cpu_usage, print_system_info and sleep(refresh_rate) have run
TickNone ==
    [cpu |-> "none", memory |-> "none", disk |-> "none",
     calculated |-> FALSE, shown |-> FALSE, slept |-> FALSE]

\* io after a read_cpu_stats call on src that returned ret
CpuCalled(src, ret) ==
    [io EXCEPT !.cpu = src, !.cpu_ret = ret,
               !.cpu_reads = IF ret = 0 /\ @ < 2 THEN @ + 1 ELSE @]

-----------------------------------------------------------------------------
(* parse_arguments *)

\* the words a command line is made of
ArgWords == {"-r", "2", "-c", "-m", "-d", "/home", "-o", "-h"}

\* argv[1..argc-1]: up to MaxArgs words
ArgLists == UNION {[1 .. n -> ArgWords] : n \in 0 .. MaxArgs}

\* atoi: the number a word starts with, 0 when it starts with none
atoi(word) == IF word = "2" THEN 2 ELSE 0

\* the result of parse_arguments: the configuration, or the call of exit
Parsed(cfg) == [config |-> cfg, exited |-> FALSE]
ParseExit(cfg) == [config |-> cfg, exited |-> TRUE]

\* the for loop of parse_arguments from argv[i] on
RECURSIVE ParseFrom(_, _, _)
ParseFrom(argv, i, cfg) ==
    IF i > Len(argv)
    THEN Parsed(cfg)
    ELSE CASE argv[i] = "-r" ->
                IF i + 1 <= Len(argv)
                THEN IF atoi(argv[i + 1]) <= 0
                     THEN ParseExit([cfg EXCEPT !.refresh_rate = atoi(argv[i + 1])])
                     ELSE ParseFrom(argv, i + 2,
                                    [cfg EXCEPT !.refresh_rate = atoi(argv[i + 1])])
                ELSE ParseExit(cfg)
           [] argv[i] = "-c" ->
                ParseFrom(argv, i + 1, [cfg EXCEPT !.show_memory = 0, !.show_disk = 0])
           [] argv[i] = "-m" ->
                ParseFrom(argv, i + 1, [cfg EXCEPT !.show_cpu = 0, !.show_disk = 0])
           [] argv[i] = "-d" ->
                IF i + 1 <= Len(argv)
                THEN ParseFrom(argv, i + 2,
                               [cfg EXCEPT !.show_cpu = 0, !.show_memory = 0,
                                           !.disk_path = argv[i + 1]])
                ELSE ParseExit([cfg EXCEPT !.show_cpu = 0, !.show_memory = 0])
           [] argv[i] = "-o" ->
                ParseFrom(argv, i + 1, [cfg EXCEPT !.continuous = 0])
           [] OTHER -> ParseExit(cfg)

\* void parse_arguments(int argc, char* argv[], config_t* config)
parse_arguments(argv) == ParseFrom(argv, 1, ConfigDefault)

-----------------------------------------------------------------------------
(* main: the polling loop *)

\* what the counter sources do during a run of the loop: /proc/stat cannot
\* be opened or read, gives a line of three counters, or gives all eight
\* counters with the value 1 or 2
LoopCpuSources ==
    {[kind |-> "open_fail", line |-> <<>>], [kind |-> "read_fail", line |-> <<>>],
     [kind |-> "line", line |-> CpuLine(2, 3)],
     [kind |-> "line", line |-> CpuLine(1, 8)],
     [kind |-> "line", line |-> CpuLine(2, 8)]}

\* /proc/meminfo cannot be opened, or reports MemTotal 2 and MemAvailable 1
LoopMemSources ==
    {[kind |-> "open_fail", file |-> NoMemFile],
     [kind |-> "ok",
      file |-> [present |-> {"total", "available"}, total |-> 2, available |-> 1,
                free |-> 0, buffers |-> 0, cached |-> 0]]}

\* statvfs fails, or reports two blocks of one byte, one of them free
LoopDiskSources ==
    {[kind |-> "statvfs_fail", vfs |-> NoVfs],
     [kind |-> "ok",
      vfs |-> [f_blocks |-> 2, f_frsize |-> 1, f_bfree |-> 1, f_bavail |-> 1]]}

\* main up to the loop: the variables of main, parse_arguments
Init ==
    /\ \E argv \in ArgLists :
          /\ config = parse_arguments(argv).config
          /\ pc = IF parse_arguments(argv).exited THEN "exited" ELSE "warm_up"
    /\ running = 1
    /\ cpu_stats = CpuZero
    /\ memory_stats = MemZero
    /\ disk_stats = DiskZero
    /\ io = IoNone
    /\ tick = TickNone
    /\ out = NoOut

\* void signal_handler(int signum), on SIGINT or SIGTERM at any moment of
\* the run
signal_handler ==
    /\ pc \notin {"exited", "stopped"}
    /\ running = 1
    /\ running' = 0
    /\ UNCHANGED <<config, pc, cpu_stats, memory_stats, disk_stats, io, tick, out>>

\* "Initial CPU reading": read_cpu_stats with its result ignored, sleep(1)
WarmUp ==
    /\ pc = "warm_up"
    /\ pc' = "read_cpu"
    /\ IF config.show_cpu = 1
       THEN \E src \in LoopCpuSources :
               LET r == read_cpu_stats(cpu_stats, src)
               IN  /\ cpu_stats' = r.stats
                   /\ io' = CpuCalled(src, r.ret)
       ELSE UNCHANGED <<cpu_stats, io>>
    /\ UNCHANGED <<config, running, memory_stats, disk_stats, tick, out>>

\* "if (config.show_cpu && read_cpu_stats(&cpu_stats) != 0) continue;"
\* continue in a do-while goes to the test of the loop
ReadCpu ==
    /\ pc = "read_cpu"
    /\ IF config.show_cpu = 1
       THEN \E src \in LoopCpuSources :
               LET r == read_cpu_stats(cpu_stats, src)
               IN  /\ cpu_stats' = r.stats
                   /\ io' = CpuCalled(src, r.ret)
                   /\ tick' = [tick EXCEPT !.cpu = IF r.ret # 0 THEN "err" ELSE "ok"]
                   /\ pc' = IF r.ret # 0 THEN "while" ELSE "read_memory"
       ELSE /\ pc' = "read_memory"
            /\ UNCHANGED <<cpu_stats, io, tick>>
    /\ UNCHANGED <<config, running, memory_stats, disk_stats, out>>

\* "if (config.show_memory && read_memory_stats(&memory_stats) != 0) continue;"
ReadMemory ==
    /\ pc = "read_memory"
    /\ IF config.show_memory = 1
       THEN \E src \in LoopMemSources :
               LET r == read_memory_stats(memory_stats, src)
               IN  /\ memory_stats' = r.stats
                   /\ io' = [io EXCEPT !.mem = src, !.mem_ret = r.ret]
                   /\ tick' = [tick EXCEPT !.memory = IF r.ret # 0 THEN "err" ELSE "ok"]
                   /\ pc' = IF r.ret # 0 THEN "while" ELSE "read_disk"
       ELSE /\ pc' = "read_disk"
            /\ UNCHANGED <<memory_stats, io, tick>>
    /\ UNCHANGED <<config, running, cpu_stats, disk_stats, out>>

\* "if (config.show_disk && read_disk_stats(config.disk_path, &disk_stats) != 0)
\* continue;"
ReadDisk ==
    /\ pc = "read_disk"
    /\ IF config.show_disk = 1
       THEN \E src \in LoopDiskSources :
               LET r == read_disk_stats(config.disk_path, disk_stats, src)
               IN  /\ disk_stats' = r.stats
                   /\ io' = [io EXCEPT !.disk = src, !.disk_ret = r.ret]
                   /\ tick' = [tick EXCEPT !.disk = IF r.ret # 0 THEN "err" ELSE "ok"]
                   /\ pc' = IF r.ret # 0 THEN "while" ELSE "calculate"
       ELSE /\ pc' = "calculate"
            /\ UNCHANGED <<disk_stats, io, tick>>
    /\ UNCHANGED <<config, running, cpu_stats, memory_stats, out>>

\* "if (config.show_cpu) calculate_cpu_usage(&cpu_stats);"
Calculate ==
    /\ pc = "calculate"
    /\ pc' = "display"
    /\ IF config.show_cpu = 1
       THEN /\ cpu_stats' = calculate_cpu_usage(cpu_stats)
            /\ tick' = [tick EXCEPT !.calculated = TRUE]
       ELSE UNCHANGED <<cpu_stats, tick>>
    /\ UNCHANGED <<config, running, memory_stats, disk_stats, io, out>>

\* "Display results": clear_screen and the header in continuous mode, then
\* print_system_info of the three structures
Display ==
    /\ pc = "display"
    /\ pc' = "sleep"
    /\ tick' = [tick EXCEPT !.shown = TRUE]
    /\ out' = print_system_info(cpu_stats, memory_stats, disk_stats, config)
    /\ UNCHANGED <<config, running, cpu_stats, memory_stats, disk_stats, io>>

\* "if (config.continuous) sleep(config.refresh_rate);"
Sleep ==
    /\ pc = "sleep"
    /\ pc' = "while"
    /\ tick' = [tick EXCEPT !.slept = (config.continuous = 1)]
    /\ UNCHANGED <<config, running, cpu_stats, memory_stats, disk_stats, io, out>>

\* the test of the loop with || in the place of &&
LoopTest_either ==
    /\ pc = "while"
    /\ IF config.continuous = 1 \/ running # 0
       THEN /\ pc' = "read_cpu"
            /\ tick' = TickNone
       ELSE /\ pc' = "stopped"
            /\ UNCHANGED tick
    /\ UNCHANGED <<config, running, cpu_stats, memory_stats, disk_stats, io, out>>

\* "} while (config.continuous && running);" and, past the loop, the
\* "Monitoring stopped." message and return 0
LoopTest ==
    /\ pc = "while"
    /\ IF config.continuous = 1 /\ running # 0
       THEN /\ pc' = "read_cpu"
            /\ tick' = TickNone
       ELSE /\ pc' = "stopped"
            /\ UNCHANGED tick
    /\ UNCHANGED <<config, running, cpu_stats, memory_stats, disk_stats, io, out>>

Next ==
    \/ signal_handler
    \/ WarmUp
    \/ ReadCpu
    \/ ReadMemory
    \/ ReadDisk
    \/ Calculate
    \/ Display
    \/ Sleep
    \/ LoopTest

Spec == Init /\ [][Next]_vars

\* the steps of main; signal_handler is the only step that is not one
MainStep ==
    \/ WarmUp
    \/ ReadCpu
    \/ ReadMemory
    \/ ReadDisk
    \/ Calculate
    \/ Display
    \/ Sleep
    \/ LoopTest

\* main keeps running: every call it makes returns (the reads of /proc and
\* statvfs do not block, sleep lasts refresh_rate seconds or is cut short by
\* a signal), so a step of main that stays possible is taken
SpecFair == Spec /\ WF_vars(MainStep)

-----------------------------------------------------------------------------
(* The delta engine on its own: calculate_cpu_usage applied to every pair   *)
(* of samples a cpu_stats_t can hold.                                       *)

InitDelta ==
    /\ config = ConfigDefault
    /\ running = 1
    /\ pc = "delta_ready"
    /\ \E prev \in CpuSamples, curr \in CpuSamples : cpu_stats = CpuPair(prev, curr)
    /\ memory_stats = MemZero
    /\ disk_stats = DiskZero
    /\ io = IoNone
    /\ tick = TickNone
    /\ out = NoOut

DeriveUsage ==
    /\ pc = "delta_ready"
    /\ cpu_stats' = calculate_cpu_usage(cpu_stats)
    /\ pc' = "delta_done"
    /\ UNCHANGED <<config, running, memory_stats, disk_stats, io, tick, out>>

NextDelta == DeriveUsage

SpecDelta == InitDelta /\ [][NextDelta]_vars

-----------------------------------------------------------------------------
(* The CPU sampler on its own: any sequence of read_cpu_stats calls on one  *)
(* cpu_stats_t, each with any outcome of the counter source.                *)

InitCpu ==
    /\ config = ConfigDefault
    /\ running = 1
    /\ pc = "cpu_sampler"
    /\ cpu_stats = CpuZero
    /\ memory_stats = MemZero
    /\ disk_stats = DiskZero
    /\ io = IoNone
    /\ tick = TickNone
    /\ out = NoOut

SampleCpu ==
    /\ pc = "cpu_sampler"
    /\ \E src \in CpuSources :
          LET r == read_cpu_stats(cpu_stats, src)
          IN  /\ cpu_stats' = r.stats
              /\ io' = CpuCalled(src, r.ret)
    /\ UNCHANGED <<config, running, pc, memory_stats, disk_stats, tick, out>>

NextCpu == SampleCpu

SpecCpu == InitCpu /\ [][NextCpu]_vars

-----------------------------------------------------------------------------
(* The memory sampler on its own: any sequence of read_memory_stats calls   *)
(* on one memory_stats_t, each with any content of the counter source.      *)

InitMem ==
    /\ config = ConfigDefault
    /\ running = 1
    /\ pc = "memory_sampler"
    /\ cpu_stats = CpuZero
    /\ memory_stats = MemZero
    /\ disk_stats = DiskZero
    /\ io = IoNone
    /\ tick = TickNone
    /\ out = NoOut

SampleMemory ==
    /\ pc = "memory_sampler"
    /\ \E src \in MemSources :
          LET r == read_memory_stats(memory_stats, src)
          IN  /\ memory_stats' = r.stats
              /\ io' = [io EXCEPT !.mem = src, !.mem_ret = r.ret]
    /\ UNCHANGED <<config, running, pc, cpu_stats, disk_stats, tick, out>>

NextMem == SampleMemory

SpecMem == InitMem /\ [][NextMem]_vars

-----------------------------------------------------------------------------
(* The disk sampler on its own: any sequence of read_disk_stats calls on    *)
(* one disk_stats_t, each with any path and any outcome of statvfs.         *)

DiskPaths == {"/", "/home"}

InitDisk ==
    /\ config = ConfigDefault
    /\ running = 1
    /\ pc = "disk_sampler"
    /\ cpu_stats = CpuZero
    /\ memory_stats = MemZero
    /\ disk_stats = DiskZero
    /\ io = IoNone
    /\ tick = TickNone
    /\ out = NoOut

SampleDisk ==
    /\ pc = "disk_sampler"
    /\ \E path \in DiskPaths, src \in DiskSources :
          LET r == read_disk_stats(path, disk_stats, src)
          IN  /\ disk_stats' = r.stats
              /\ io' = [io EXCEPT !.disk = src, !.disk_ret = r.ret]
    /\ UNCHANGED <<config, running, pc, cpu_stats, memory_stats, tick, out>>

NextDisk == SampleDisk

SpecDisk == InitDisk /\ [][NextDisk]_vars

-----------------------------------------------------------------------------
(* The unit converter on its own: format_bytes applied to every byte count. *)

NoText == Text(0, <<>>, -1)

InitFormat ==
    /\ config = ConfigDefault
    /\ running = 1
    /\ pc = "format_ready"
    /\ cpu_stats = CpuZero
    /\ memory_stats = MemZero
    /\ disk_stats = DiskZero
    /\ io = IoNone
    /\ tick = TickNone
    /\ \E bytes \in ByteCounts : out = [bytes |-> bytes, buffer |-> NoText]

FormatBytes ==
    /\ pc = "format_ready"
    /\ pc' = "format_done"
    /\ out' = [out EXCEPT !.buffer = format_bytes(out.bytes)]
    /\ UNCHANGED <<config, running, cpu_stats, memory_stats, disk_stats, io, tick>>

NextFormat == FormatBytes

SpecFormat == InitFormat /\ [][NextFormat]_vars

-----------------------------------------------------------------------------
(* The display on its own: print_system_info of one section, for every      *)
(* percentage from 0 to 100 in steps of 1/PercentSteps.                     *)

Percents == {Frac(n, PercentSteps) : n \in 0 .. 100 * PercentSteps}

\* the configuration that shows the section m only
ShowOnly(m) ==
    [ConfigDefault EXCEPT !.show_cpu = IF m = "cpu" THEN 1 ELSE 0,
                          !.show_memory = IF m = "memory" THEN 1 ELSE 0,
                          !.show_disk = IF m = "disk" THEN 1 ELSE 0]

InitDisplay ==
    /\ running = 1
    /\ pc = "display_ready"
    /\ \E m \in {"cpu", "memory", "disk"}, p \in Percents :
          /\ config = ShowOnly(m)
          /\ cpu_stats = [CpuZero EXCEPT !.usage_percent = IF m = "cpu" THEN p ELSE Zero]
          /\ memory_stats = [MemZero EXCEPT !.usage_percent = IF m = "memory" THEN p ELSE Zero]
          /\ disk_stats = [DiskZero EXCEPT !.usage_percent = IF m = "disk" THEN p ELSE Zero]
    /\ io = IoNone
    /\ tick = TickNone
    /\ out = NoOut

PrintSystemInfo ==
    /\ pc = "display_ready"
    /\ pc' = "display_done"
    /\ out' = print_system_info(cpu_stats, memory_stats, disk_stats, config)
    /\ UNCHANGED <<config, running, cpu_stats, memory_stats, disk_stats, io, tick>>

NextDisplay == PrintSystemInfo

SpecDisplay == InitDisplay /\ [][NextDisplay]_vars

-----------------------------------------------------------------------------
(* Properties of the polling loop (Spec) *)

\* the samplers of a pass, with the configuration field that enables each
Samplers == {"cpu", "memory", "disk"}
Enabled(m) ==
    CASE m = "cpu"    -> config.show_cpu = 1
      [] m = "memory" -> config.show_memory = 1
      [] m = "disk"   -> config.show_disk = 1

\* C4: with CPU monitoring enabled, a CPU usage reading is computed only
\* when two samples from two successful read_cpu_stats calls are held, never
\* from fewer than two successful reads, whatever the warm-up read did
C4_ReadingNeedsTwoSuccessfulReads ==
    (config.show_cpu = 1 /\ tick.calculated) => io.cpu_reads >= 2

\* C7: in a pass in which one enabled sampler returns an error, every other
\* enabled sampler is still read in that pass and its result is still
\* rendered in that pass
C7_FailureDoesNotSuppressOthers ==
    pc = "while" =>
        \A failed \in Samplers, other \in Samplers :
            (/\ other # failed
             /\ Enabled(failed)
             /\ tick[failed] = "err"
             /\ Enabled(other)) =>
                /\ tick[other] # "none"
                /\ tick[other] = "ok" => tick.shown

-----------------------------------------------------------------------------
(* Properties of the delta engine (SpecDelta) *)

\* the differences of the claims, taken as signed integers
DeltaTotal(stats) ==
    (stats.user + stats.nice + stats.system + stats.idle
     + stats.iowait + stats.irq + stats.softirq + stats.steal)
    - (stats.prev_user + stats.prev_nice + stats.prev_system + stats.prev_idle
       + stats.prev_iowait + stats.prev_irq + stats.prev_softirq + stats.prev_steal)

DeltaIdle(stats) ==
    (stats.idle + stats.iowait) - (stats.prev_idle + stats.prev_iowait)

\* n / d for signed n and d, d # 0, kept with a positive denominator
SignedFrac(n, d) == IF d < 0 THEN Frac(0 - n, 0 - d) ELSE Frac(n, d)

\* C1: for every pair of previous/current samples, counter regressions
\* included, calculate_cpu_usage leaves usage_percent a number within [0,100]
C1_UsageWithinRange ==
    pc = "delta_done" => InPercentRange(cpu_stats.usage_percent)

\* C1 witness: a pair with a regressed idle counter whose quotient exceeds
\* 100 before the clamp, after calculate_cpu_usage
C1_RegressionClamped ==
    /\ pc = "delta_done"
    /\ cpu_stats.idle < cpu_stats.prev_idle
    /\ total_diff(cpu_stats) > 0
    /\ Wrap(total_diff(cpu_stats) - idle_diff(cpu_stats)) > total_diff(cpu_stats)
    /\ FracEq(cpu_stats.usage_percent, Hundred)

\* C2: usage_percent = 0 when deltaTotal = 0 and otherwise
\* clamp((deltaTotal - deltaIdle) / deltaTotal * 100, 0, 100), with deltaTotal
\* and deltaIdle the possibly negative differences of the sums
C2_UsageIsClampedSignedQuotient ==
    pc = "delta_done" =>
        FracEq(cpu_stats.usage_percent,
               IF DeltaTotal(cpu_stats) = 0
               THEN Zero
               ELSE ClampPercent(SignedFrac(
                        100 * (DeltaTotal(cpu_stats) - DeltaIdle(cpu_stats)),
                        DeltaTotal(cpu_stats))))

\* C3: whenever the two samples have equal totals (deltaTotal = 0),
\* calculate_cpu_usage sets usage_percent to exactly 0
C3_ZeroDeltaGivesZero ==
    (pc = "delta_done" /\ DeltaTotal(cpu_stats) = 0) =>
        FracEq(cpu_stats.usage_percent, Zero)

\* C3 witness: prev == curr with non-zero counters, after calculate_cpu_usage
C3_SameNonZeroSamples ==
    /\ pc = "delta_done"
    /\ \A i \in 1 .. 8 : cpu_stats[CpuFields[i]] = cpu_stats[PrevField(CpuFields[i])]
    /\ cpu_stats.user > 0
    /\ cpu_stats.idle > 0

-----------------------------------------------------------------------------
(* Properties of the CPU sampler (SpecCpu) *)

\* C5: a successful read_cpu_stats of a line with k of the eight counters,
\* 4 <= k < 8, leaves the current sample with the k parsed values and with
\* every absent counter equal to 0
C5_AbsentCountersAreZero ==
    (/\ io.cpu.kind = "line"
     /\ io.cpu_ret = 0
     /\ Len(io.cpu.line) < 8) =>
        \A i \in 1 .. 8 :
            cpu_stats[CpuFields[i]] =
                IF i <= Len(io.cpu.line) THEN io.cpu.line[i] ELSE 0

\* C6: read_cpu_stats returns an error exactly when the source cannot be
\* opened or read or fewer than four counters can be parsed; a line with four
\* to eight counters is accepted
C6_ErrorExactlyOnUnreadableOrShort ==
    io.cpu.kind # "none" =>
        /\ io.cpu_ret \in {0, -1}
        /\ io.cpu_ret = -1 <=>
              \/ io.cpu.kind \in {"open_fail", "read_fail"}
              \/ Len(io.cpu.line) < 4

\* C6 witness: a line of exactly four counters has been read and accepted
C6_FourCountersAccepted ==
    /\ io.cpu.kind = "line"
    /\ Len(io.cpu.line) = 4
    /\ io.cpu_ret = 0
    /\ cpu_stats.idle = io.cpu.line[4]

-----------------------------------------------------------------------------
(* Properties of the memory sampler (SpecMem) *)

\* C8: after every successful read_memory_stats the derived figures satisfy
\* 0 <= used <= total and 0 <= available <= total
C8_UsedAndAvailableWithinTotal ==
    (io.mem.kind = "ok" /\ io.mem_ret = 0) =>
        /\ 0 <= memory_stats.used
        /\ memory_stats.used <= memory_stats.total
        /\ 0 <= memory_stats.available
        /\ memory_stats.available <= memory_stats.total

\* C9: after every successful read_memory_stats usage_percent lies in
\* [0,100], equals used/total*100 when total > 0 and used <= total, and
\* equals 0 when total = 0
C9_MemoryPercent ==
    (io.mem.kind = "ok" /\ io.mem_ret = 0) =>
        /\ InPercentRange(memory_stats.usage_percent)
        /\ (memory_stats.total > 0 /\ memory_stats.used <= memory_stats.total) =>
              FracEq(memory_stats.usage_percent,
                     Frac(100 * memory_stats.used, memory_stats.total))
        /\ memory_stats.total = 0 => FracEq(memory_stats.usage_percent, Zero)

\* C9 witness: a successful read of a source with MemTotal 0 and other
\* counters not 0, which leaves used > 0
C9_ZeroTotalRead ==
    /\ io.mem.kind = "ok"
    /\ io.mem_ret = 0
    /\ memory_stats.total = 0
    /\ memory_stats.free > 0
    /\ memory_stats.used > 0

\* C10: a missing key counts as 0; when MemAvailable is reported,
\* used = total - available and available is the reported value; when it is
\* not reported, used = total - free - buffers - cached and
\* available = free + buffers + cached (for free + buffers + cached <= total)
C10_UsedAndAvailableFormulas ==
    (io.mem.kind = "ok" /\ io.mem_ret = 0) =>
        LET f == io.mem.file
            sum == f.free + f.buffers + f.cached
        IN  /\ "available" \in f.present =>
                /\ memory_stats.used = Wrap(f.total - f.available)
                /\ memory_stats.available = f.available
            /\ ("available" \notin f.present /\ sum <= f.total) =>
                /\ memory_stats.used = f.total - sum
                /\ memory_stats.available = sum

-----------------------------------------------------------------------------
(* Properties of the disk sampler (SpecDisk) *)

\* C11: after every successful read_disk_stats with freeBlocks <= blockCount,
\* total = blockCount * blockSize, used = total - freeBlocks * blockSize,
\* available = availableBlocks * blockSize, and usage_percent is
\* used/total*100 within [0,100], 0 when total = 0; used is computed from the
\* free blocks, whatever the available blocks are
C11_DiskFigures ==
    (/\ io.disk.kind = "ok"
     /\ io.disk_ret = 0
     /\ io.disk.vfs.f_bfree <= io.disk.vfs.f_blocks) =>
        LET v == io.disk.vfs
        IN  /\ disk_stats.total = v.f_blocks * v.f_frsize
            /\ disk_stats.used = disk_stats.total - v.f_bfree * v.f_frsize
            /\ disk_stats.available = v.f_bavail * v.f_frsize
            /\ InPercentRange(disk_stats.usage_percent)
            /\ disk_stats.total > 0 =>
                  FracEq(disk_stats.usage_percent,
                         Frac(100 * disk_stats.used, disk_stats.total))
            /\ disk_stats.total = 0 => FracEq(disk_stats.usage_percent, Zero)

\* C11 witness: a successful read of a file system with reserved blocks
\* (fewer available than free blocks), where used + available # total
C11_ReservedBlocksRead ==
    /\ io.disk.kind = "ok"
    /\ io.disk_ret = 0
    /\ io.disk.vfs.f_bavail < io.disk.vfs.f_bfree
    /\ io.disk.vfs.f_bfree < io.disk.vfs.f_blocks
    /\ disk_stats.used + disk_stats.available < disk_stats.total
    /\ FracLT(Zero, disk_stats.usage_percent)
    /\ FracLT(disk_stats.usage_percent, Hundred)

-----------------------------------------------------------------------------
(* Properties of the unit converter (SpecFormat) *)

\* the number of times n can be divided by 1024 while the value is still
\* >= 1024: n >= 1024^(j+1) for a count of more than j + 1 digits
Divisions(bytes) == IF Len(bytes) = 0 THEN 0 ELSE Len(bytes) - 1

\* C12: format_bytes selects the unit index k = the number of times n can be
\* divided by 1024 while the value is still >= 1024, capped at 4; n < 1024 is
\* printed as the unchanged integer n in B, and every n >= 1024^5 stays in TB
\* with no further scaling (the number printed is 1024 or more)
C12_UnitSelection ==
    pc = "format_done" =>
        LET n == out.bytes
            b == out.buffer
        IN  /\ b.unit_index = IF Divisions(n) < 4 THEN Divisions(n) ELSE 4
            /\ b.unit = units[b.unit_index + 1]
            /\ Len(n) <= 1 => (b.unit = "B" /\ b.whole = n /\ b.tenths = -1)
            /\ Len(n) >= 6 => (b.unit = "TB" /\ Len(b.whole) >= 2)

\* C12 witness: a count of 1024^5 or more has been formatted, in TB, with
\* more than four digits before the decimal point
C12_BeyondTerabytes ==
    /\ pc = "format_done"
    /\ Len(out.bytes) = 6
    /\ out.bytes[6] = 1023
    /\ out.buffer.unit = "TB"
    /\ Len(out.buffer.whole) = 2

-----------------------------------------------------------------------------
(* Properties of the display (SpecDisplay) *)

\* the tier of the percentage p for the cut points low and high, by its
\* color: Normal is GREEN, Moderate is YELLOW, High is RED
Tier(p, low, high) ==
    IF FracLT(p, Frac(low, 1)) THEN "GREEN"
    ELSE IF FracLT(p, Frac(high, 1)) THEN "YELLOW"
    ELSE "RED"

\* C13: the tier shown for a percentage p is Normal when p < low, Moderate
\* when low <= p < high and High when p >= high, with the cut points (60, 80)
\* for CPU, (75, 90) for memory and (80, 90) for disk; a percentage equal to
\* a cut point belongs to the higher tier
C13_CutPointBelongsToHigherTier ==
    pc = "display_done" =>
        /\ out.cpu.shown =>
              out.cpu.bar.color = Tier(cpu_stats.usage_percent, 60, 80)
        /\ out.memory.shown =>
              out.memory.bar.color = Tier(memory_stats.usage_percent, 75, 90)
        /\ out.disk.shown =>
              out.disk.bar.color = Tier(disk_stats.usage_percent, 80, 90)

-----------------------------------------------------------------------------
(* Properties of the polling loop: shutdown, one-shot mode, cadence *)

\* a sampling pass starts: the first one after the initial reading, a later
\* one after the test of the loop
NewTick == pc # "read_cpu" /\ pc' = "read_cpu"

\* C14: in continuous mode, after a shutdown request (running is 0) the flag
\* is never set back and no new sampling pass is started; at most the pass
\* in progress at the time of the request completes
C14_NoTickAfterRequest ==
    [][(config.continuous = 1 /\ running = 0) => (running' = 0 /\ ~NewTick)]_vars

\* C15: in one-shot mode the loop performs exactly one sampling pass (no pass
\* is started by the test of the loop) and then terminates with "Monitoring
\* stopped.", whatever the value of running and whether or not a sampler
\* failed in that pass
C15_OneShotSinglePass ==
    /\ [][config.continuous = 0 => (NewTick => pc = "warm_up")]_vars
    /\ [][(config.continuous = 0 /\ pc = "while") => pc' \in {"while", "stopped"}]_vars
    /\ (config.continuous = 0 /\ pc = "warm_up") ~> (pc = "stopped")

\* C15 witness: a one-shot run has stopped after a pass in which a sampler
\* failed, with running still set
C15_StoppedAfterFailedPass ==
    /\ config.continuous = 0
    /\ pc = "stopped"
    /\ running = 1
    /\ \E m \in Samplers : tick[m] = "err"

\* C18: in continuous mode a new sampling pass never starts from the test of
\* the loop without a sleep(refresh_rate) in the pass before it, also when a
\* sampler returned an error in that pass
C18_SleepBetweenPasses ==
    [][(config.continuous = 1 /\ pc = "while" /\ NewTick) => tick.slept]_vars

-----------------------------------------------------------------------------
(* Properties of the polling loop: the samples held and the CPU details *)

\* the eight current and the eight previous counters held
Current(stats) == [i \in 1 .. 8 |-> stats[CpuFields[i]]]
Previous(stats) == [i \in 1 .. 8 |-> stats[PrevField(CpuFields[i])]]

\* the samples a source can give whose well-formed lines carry all eight
\* counters of one read, and the sample held before the first read
WholeSamples == {CpuLine(v, 8) : v \in 0 .. MaxLineTick}

\* C16: after any sequence of read_cpu_stats calls, successful or failing,
\* on a source whose well-formed lines carry all eight counters, the current
\* and the previous sample are each the eight counters of one read (no held
\* sample mixes counters of different reads), and after a successful call the
\* current sample is the line read and the sample it replaced is the previous
C16_SamplesAreWhole ==
    /\ Current(cpu_stats) \in WholeSamples
    /\ Previous(cpu_stats) \in WholeSamples
    /\ (io.cpu.kind = "line" /\ io.cpu_ret = 0) => Current(cpu_stats) = io.cpu.line

\* the held samples are non-decreasing with some time between them
NonDecreasing(stats) ==
    /\ \A i \in 1 .. 8 : Previous(stats)[i] <= Current(stats)[i]
    /\ DeltaTotal(stats) > 0

\* the sum of two finite percentages is 100
SumToHundred(p, q) ==
    /\ p.den > 0
    /\ q.den > 0
    /\ p.num * q.den + q.num * p.den = 100 * p.den * q.den

\* C17: the shares printed with a CPU reading use the deltaTotal of the
\* headline usage: user = (curr.user - prev.user)/deltaTotal*100, system =
\* (curr.system - prev.system)/deltaTotal*100, idle = ((curr.idle +
\* curr.iowait) - (prev.idle + prev.iowait))/deltaTotal*100, so that for
\* non-decreasing samples with deltaTotal > 0 the idle share and the
\* headline usage sum to 100
C17_SharesOfDeltaTotal ==
    (pc = "sleep" /\ out.cpu.shown /\ NonDecreasing(cpu_stats)) =>
        /\ FracEq(out.cpu.user,
                  Frac(100 * (cpu_stats.user - cpu_stats.prev_user),
                       DeltaTotal(cpu_stats)))
        /\ FracEq(out.cpu.system,
                  Frac(100 * (cpu_stats.system - cpu_stats.prev_system),
                       DeltaTotal(cpu_stats)))
        /\ FracEq(out.cpu.idle,
                  Frac(100 * DeltaIdle(cpu_stats), DeltaTotal(cpu_stats)))
        /\ SumToHundred(out.cpu.idle, out.cpu.bar.percentage)

\* C19: in a sampling pass where the two held samples have equal totals no
\* division by deltaTotal is performed: neither the usage of
\* calculate_cpu_usage nor the user, system and idle shares of
\* print_system_info have a zero divisor
C19_NoDivisionByZeroDelta ==
    (pc = "sleep" /\ out.cpu.shown /\ total_diff(cpu_stats) = 0) =>
        /\ cpu_stats.usage_percent.den # 0
        /\ out.cpu.user.den # 0
        /\ out.cpu.system.den # 0
        /\ out.cpu.idle.den # 0

====
